---- MODULE Spec2Model ----
(***************************************************************************)
(* Snapshot reconciliation and command dispatch of the procon-ip adapter   *)
(* (src/src/main.ts).  One poll success callback is one step; an intent    *)
(* handler and onReady are one step per synchronous stretch between two    *)
(* awaits.                                                                 *)
(***************************************************************************)
EXTENDS Integers, Sequences, FiniteSets, TLC

\* ------------------------------------------------------------------ bounds
\* raw object values range over 0..MaxValue
MaxValue == 1
\* intents are accepted while the ledger is shorter than this
MaxLedger == 2

\* ------------------------------------------------------- the device's data
RELAYS == "relays"
EXTERNAL_RELAYS == "externalRelays"

\* ids of the data objects every snapshot holds: one relay, one external relay
ObjIds == {16, 28}
\* data.objects, in the order forEach visits them
ObjOrder == <<16, 28>>
Category(id) == IF id = 16 THEN RELAYS ELSE EXTERNAL_RELAYS
\* both are the first of their category
CategoryId(id) == 1
Values == 0..MaxValue

\* private _objectStateFields
objectStateFields == <<"value", "category", "label", "unit", "displayValue", "active">>

\* one GetStateDataObject: displayValue is the formatted value
DataObject(id, v, l) ==
    [id |-> id, category |-> Category(id), categoryId |-> CategoryId(id),
     label |-> l, value |-> v, unit |-> "", displayValue |-> <<"dv", v>>,
     active |-> TRUE]

\* the scalar keys of sysInfo.toArrayOfObjects()
SysKeys == {"version", "dosageControl", "configOtherEnable",
            "chlorineDosageRelais", "phMinusDosageRelais", "phPlusDosageRelais"}

SysInfo(dc, ext, cfg) ==
    [version |-> 1, dosageControl |-> dc, configOtherEnable |-> ext,
     chlorineDosageRelais |-> cfg[1], phMinusDosageRelais |-> cfg[2],
     phPlusDosageRelais |-> cfg[3]]

isExtRelaysEnabled(sys) == sys.configOtherEnable = 1
getChlorineDosageControlId(data) == data.sysInfo.chlorineDosageRelais
getPhMinusDosageControlId(data) == data.sysInfo.phMinusDosageRelais
getPhPlusDosageControlId(data) == data.sysInfo.phPlusDosageRelais
isDosageControl(data, relayId) ==
    relayId \in {getChlorineDosageControlId(data), getPhMinusDosageControlId(data),
                 getPhPlusDosageControlId(data)}

\* new GetStateData(): no objects, an empty sysInfo
EmptyData == [sysInfo |-> SysInfo(0, 0, <<0, 0, 0>>),
              objects |-> [id \in ObjIds |-> DataObject(id, 0, "")]]

\* the labels the device reports for an object: the relay is renamed between
\* polls, the external relay keeps its label
LabelsOf(id) == IF id = 16 THEN {"Pump", "Filter"} ELSE {"Pump"}

\* the dosage relay configurations (chlorine, pH-, pH+) a snapshot can report
DosageConfigs == {<<1, 9, 2>>, <<2, 1, 9>>, <<2, 2, 1>>}

\* snapshots: every object id with each value and label, under each sysInfo
SnapshotsOver(dcs, exts, cfgs, vals, labelled) ==
    { [sysInfo |-> SysInfo(dc, ext, cfg), objects |-> objs] :
        dc \in dcs, ext \in exts, cfg \in cfgs,
        objs \in { f \in [ObjIds -> UNION { { DataObject(id, v, l) :
                                              v \in vals, l \in IF labelled THEN LabelsOf(id) ELSE {"Pump"} } :
                                            id \in ObjIds }] :
                   \A id \in ObjIds : f[id].id = id } }

\* the snapshots of the reconciliation runs: values and labels change, the
\* system info stays
Snapshots == SnapshotsOver({0}, {1}, {<<1, 9, 2>>}, Values, TRUE)

\* the snapshots of the dispatch runs: the device reports the same values in
\* every poll, the dosage relay configuration and the external bank change
DispatchSnapshots == SnapshotsOver({0}, {0, 1}, DosageConfigs, {0}, FALSE)

\* GetStateData.getDataObject(id)
getDataObject(data, id) == data.objects[id]

VARIABLES
    pc,            \* position of onReady: "constructed", the awaits, "running",
                   \* "returned" (invalid URL), "failed" (onReady rejected)
    stateData,     \* this._stateData, the baseline
    bootstrapped,  \* this._bootstrapped
    forceUpdate,   \* this._forceUpdate, an array of object ids
    objects,       \* the store's objects: <<id, entity>> pairs that were created
    h,             \* the intent handler in flight, or the last one that finished
    obs,           \* what the poll cycles did since the last auto intent
    cycle,         \* what the last poll success callback saw and issued
    connection,    \* the value last requested for info.connection
    connectionApproved, \* the local of onReady its two callbacks share
    service,       \* this._getStateService: "none", "idle", "started", "stopped"
    timeout,       \* this._timeout: "null", "armed", "fired", "cleared"
    unloaded,      \* onUnload was called
    last,          \* the latest of: "start", "pollOk", "pollFail", "unload"
    writable,      \* the created objects whose common.write is true
    mat,           \* what the materialization at startup was given and did
    event,         \* the state change event delivered last
    stored,        \* the store's value state of each object, -1 without one
    unsettled,     \* ids of objects with a state write issued and not settled
    creating       \* setDataObjectNotExists calls of onReady are still running

lifeVars == <<connection, connectionApproved, service, timeout, unloaded, last>>
storeVars == <<objects, writable, mat>>
writeVars == <<stored, unsettled, creating>>

vars == <<pc, stateData, bootstrapped, forceUpdate, objects, h, obs, cycle,
          connection, connectionApproved, service, timeout, unloaded, last,
          writable, mat, event, stored, unsettled, creating>>

NoCycle == [done |-> FALSE, boot |-> FALSE, prev |-> EmptyData.objects,
            prevSys |-> EmptyData.sysInfo, racing |-> FALSE, ledger |-> {},
            left |-> {}, sysWrites |-> <<>>, objWrites |-> <<>>, renames |-> <<>>,
            creates |-> {}]

Idle == [kind |-> "none", id |-> 0, val |-> 0, pc |-> "idle", onOff |-> "null",
         pushed |-> FALSE, calls |-> <<>>, result |-> "none"]

NoObs == [boot |-> FALSE, firstPoll |-> "none", pushPoll |-> "none"]

\* ------------------------------------------------------------ JS helpers
\* Array.prototype.indexOf, 1-based; 0 stands for -1
RECURSIVE IndexFrom(_, _, _)
IndexFrom(s, x, i) ==
    IF i > Len(s) THEN 0 ELSE IF s[i] = x THEN i ELSE IndexFrom(s, x, i + 1)
\* mutant: the search starts at the second element
indexOf_SkipFirst(s, x) == IndexFrom(s, x, 2)
indexOf(s, x) == IndexFrom(s, x, 1)

\* mutant: nothing is removed
splice1_Keeps(s, i) == s

\* Array.prototype.splice(i, 1)
splice1(s, i) == [k \in 1..(Len(s) - 1) |-> IF k < i THEN s[k] ELSE s[k + 1]]

\* if (this._forceUpdate[forceObjStateUpdate]): undefined for index -1, and a
\* number is truthy unless it is 0
ForceEntryTruthy(ledger, idx) == idx >= 1 /\ ledger[idx] # 0

\* ---------------------------------------------------------- materialization
\* relay-class test of setDataObjectNotExists and setDataState
isRelayClass(obj, base) ==
    \/ obj.category = RELAYS
    \/ obj.category = EXTERNAL_RELAYS /\ isExtRelaysEnabled(base.sysInfo)

DosageExtOffset == 8

\* setRelayDataObject: relayId
relayObjectId(obj) ==
    (IF obj.category = EXTERNAL_RELAYS THEN DosageExtOffset ELSE 0) + obj.categoryId

\* the creations the store rejects: <<id, entity>> pairs and category channels
NoRejects == [entities |-> {}, categories |-> {}]

\* what a materialization function attempted to create, what it created, and
\* which of the created objects have common.write = true
Nothing == [attempted |-> {}, created |-> {}, writable |-> {}]

\* mutant: every relay gets the generic timer
relayEntities_TimerOnly(obj, data) == <<"auto", "onOff", "timer">>

\* setRelayDataObject: the entities in the order they are created
relayEntities(obj, data) ==
    <<"auto", "onOff",
      IF isDosageControl(data, relayObjectId(obj)) THEN "dosageTimer" ELSE "timer">>

\* common.write of a relay entity: true, but !isDosageRelay for onOff
relayEntityWritable(obj, data, name) ==
    name # "onOff" \/ ~isDosageControl(data, relayObjectId(obj))

\* setRelayDataObject: three awaited creations in a row, none of them inside
\* a try; a rejected one ends the function
setRelayDataObject(obj, data, rejects) ==
    LET order == relayEntities(obj, data)
        ok(k) == <<obj.id, order[k]>> \notin rejects.entities
        reached == { k \in 1..Len(order) : \A j \in 1..(k - 1) : ok(j) }
        made == { k \in reached : ok(k) }
    IN  [attempted |-> { <<obj.id, order[k]>> : k \in reached },
         created |-> { <<obj.id, order[k]>> : k \in made },
         writable |-> { <<obj.id, order[k]>> :
                          k \in { m \in made : relayEntityWritable(obj, data, order[m]) } }]

\* setDataObjectNotExists: the channel (awaited outside a try: its rejection
\* ends the function), one state per tracked field (each inside its own try),
\* and the relay entities of a relay-class object
setDataObjectNotExists(obj, data, rejects) ==
    IF <<obj.id, "channel">> \in rejects.entities
    THEN [Nothing EXCEPT !.attempted = { <<obj.id, "channel">> }]
    ELSE LET fields == { <<obj.id, objectStateFields[k]>> : k \in 1..Len(objectStateFields) }
             relay == IF isRelayClass(obj, data)
                      THEN setRelayDataObject(obj, data, rejects) ELSE Nothing
         IN  [attempted |-> { <<obj.id, "channel">> } \cup fields \cup relay.attempted,
              created |-> { <<obj.id, "channel">> } \cup (fields \ rejects.entities)
                          \cup relay.created,
              writable |-> relay.writable]

\* setStateDataObjectsNotExists: i is the position in data.objects; the
\* category channel is awaited outside a try, so its rejection ends the loop
\* and is thrown to the caller; setDataObjectNotExists is not awaited and its
\* rejection is caught
RECURSIVE forEachCreate(_, _, _, _, _)
forEachCreate(i, data, rejects, lastObjCategory, acc) ==
    IF i > Len(ObjOrder) THEN acc
    ELSE
        LET obj == data.objects[ObjOrder[i]]
            fresh == lastObjCategory # obj.category
            made == setDataObjectNotExists(obj, data, rejects)
            seen == IF fresh THEN acc.categoriesAttempted \cup {obj.category}
                    ELSE acc.categoriesAttempted
        IN  IF fresh /\ obj.category \in rejects.categories
            THEN [acc EXCEPT !.categoriesAttempted = seen, !.aborted = TRUE]
            ELSE forEachCreate(i + 1, data, rejects, obj.category,
                    [acc EXCEPT !.categoriesAttempted = seen,
                                !.categories = IF fresh THEN @ \cup {obj.category} ELSE @,
                                !.attempted = @ \cup made.attempted,
                                !.created = @ \cup made.created,
                                !.writable = @ \cup made.writable])

setStateDataObjectsNotExists(data, rejects) ==
    forEachCreate(1, data, rejects, "",
        [attempted |-> {}, created |-> {}, writable |-> {}, categories |-> {},
         categoriesAttempted |-> {}, aborted |-> FALSE])

\* mat: the rejections a materialization ran with, and what it attempted
Materialized(data, rejects) ==
    LET r == setStateDataObjectsNotExists(data, rejects)
    IN  [done |-> TRUE, rejects |-> rejects,
         attempted |-> r.attempted, categories |-> r.categories,
         categoriesAttempted |-> r.categoriesAttempted, aborted |-> r.aborted]

NoMat == [done |-> FALSE, rejects |-> NoRejects,
          attempted |-> {}, categories |-> {}, categoriesAttempted |-> {},
          aborted |-> FALSE]

\* ------------------------------------------------------------ poll callback
\* setRelayDataState: the auto and onOff states
setRelayDataState(obj) == << <<obj.id, "auto">>, <<obj.id, "onOff">> >>

\* setDataState: one write per tracked field, then the relay states; the
\* external bank flag is read from this._stateData, the baseline
setDataState(obj, base) ==
    [k \in 1..Len(objectStateFields) |-> <<obj.id, objectStateFields[k]>>]
    \o (IF isRelayClass(obj, base) THEN setRelayDataState(obj) ELSE <<>>)

\* mutant: the label is compared as well
ObjectNeedsUpdate_AnyField(obj, base, boot, idx) ==
    \/ ~boot
    \/ idx >= 1
    \/ getDataObject(base, obj.id).value # obj.value
    \/ getDataObject(base, obj.id).label # obj.label

\* mutant: the ledger is not consulted
ObjectNeedsUpdate_NoForce(obj, base, boot, idx) ==
    \/ ~boot
    \/ getDataObject(base, obj.id).value # obj.value

\* mutant: the bootstrap flag is not consulted
ObjectNeedsUpdate_NoBoot(obj, base, boot, idx) ==
    \/ idx >= 1
    \/ getDataObject(base, obj.id).value # obj.value

\* the change condition of the poll callback
ObjectNeedsUpdate(obj, base, boot, idx) ==
    \/ ~boot
    \/ idx >= 1
    \/ getDataObject(base, obj.id).value # obj.value

\* data.objects.forEach: i is the position in data.objects, acc the ledger and
\* what was issued so far
RECURSIVE forEachObject(_, _, _, _, _)
forEachObject(i, data, base, boot, acc) ==
    IF i > Len(ObjOrder) THEN acc
    ELSE
        LET obj == data.objects[ObjOrder[i]]
            idx == indexOf(acc.ledger, obj.id)
        IN  IF ObjectNeedsUpdate(obj, base, boot, idx)
            THEN forEachObject(i + 1, data, base, boot,
                    [ledger |-> IF ForceEntryTruthy(acc.ledger, idx)
                                THEN splice1(acc.ledger, idx) ELSE acc.ledger,
                     writes |-> acc.writes \o setDataState(obj, base),
                     renames |-> IF getDataObject(base, obj.id).label # obj.label
                                 THEN Append(acc.renames, obj.id) ELSE acc.renames])
            ELSE forEachObject(i + 1, data, base, boot, acc)

\* the sys info states of a cycle: the changed scalar keys
SysKeyOrder == <<"version", "dosageControl", "configOtherEnable",
                 "chlorineDosageRelais", "phMinusDosageRelais", "phPlusDosageRelais">>

\* mutant: the baseline is replaced by the snapshot before the comparison
sysInfoWrites_AgainstSnapshot(i, data, base, boot) ==
    IF boot THEN <<>> ELSE SysKeyOrder

RECURSIVE sysInfoWrites(_, _, _, _)
sysInfoWrites(i, data, base, boot) ==
    IF i > Len(SysKeyOrder) THEN <<>>
    ELSE (IF ~boot \/ data.sysInfo[SysKeyOrder[i]] # base.sysInfo[SysKeyOrder[i]]
          THEN <<SysKeyOrder[i]>> ELSE <<>>)
         \o sysInfoWrites(i + 1, data, base, boot)

\* mutant: the derived booleans are written in every cycle
updateAdvancedSysInfoStates_Always(data, base, boot) ==
    <<"phPlusDosageEnabled", "phMinusDosageEnabled", "chlorineDosageEnabled",
      "electrolysis">>

\* updateAdvancedSysInfoStates: the four derived booleans, all or none
updateAdvancedSysInfoStates(data, base, boot) ==
    IF ~boot \/ data.sysInfo.dosageControl # base.sysInfo.dosageControl
    THEN <<"phPlusDosageEnabled", "phMinusDosageEnabled", "chlorineDosageEnabled",
           "electrolysis">>
    ELSE <<>>

\* -------------------------------------------------------------- intents
\* a state change event: the state is deleted (null), acknowledged or
\* unacknowledged; the path suffix, the native id of the object the path
\* names, and state.val
Intents ==
    [state : {"unack"}, kind : {"auto", "onOff"}, id : ObjIds, val : {0, 1}]
    \cup [state : {"unack"}, kind : {"dosageTimer", "timer"}, id : ObjIds, val : {1}]

\* the intents of the reconciliation runs
ReconcileIntents == [state : {"unack"}, kind : {"onOff"}, id : ObjIds, val : {1}]

\* the events of the event runs: every kind of state, the four suffixes and
\* the suffix of a field state
StateChangeEvents ==
    [state : {"deleted", "ack", "unack"},
     kind : {"auto", "onOff", "dosageTimer", "timer", "value"}, id : {16}, val : {1}]

NoEvent == [state |-> "none", kind |-> "none", id |-> 0, val |-> 0]

\* the suffixes onStateChange has a handler for
HandlerSuffixes == {"auto", "onOff", "dosageTimer", "timer"}

Call(cmd, target, seconds) == [cmd |-> cmd, target |-> target, seconds |-> seconds]

TimerExtOffset == 9
TimerOffset == 1

\* mutant: the onOff state is looked at before the intent's value
relayToggleAuto_OnOffFirst(obj, val, onOff) ==
    IF onOff = "true" THEN <<Call("setOn", obj.id, 0)>>
    ELSE IF val # 0 THEN <<Call("setAuto", obj.id, 0)>>
    ELSE <<Call("setOff", obj.id, 0)>>

\* mutant: on and off are swapped
relayToggleAuto_Swapped(obj, val, onOff) ==
    IF val # 0 THEN <<Call("setAuto", obj.id, 0)>>
    ELSE IF onOff = "true" THEN <<Call("setOff", obj.id, 0)>>
    ELSE <<Call("setOn", obj.id, 0)>>

\* relayToggleAuto, after both reads: the command it sends
relayToggleAuto(obj, val, onOff) ==
    IF val # 0 THEN <<Call("setAuto", obj.id, 0)>>
    ELSE IF onOff = "true" THEN <<Call("setOn", obj.id, 0)>>
    ELSE <<Call("setOff", obj.id, 0)>>

\* relayToggleOnOff
relayToggleOnOff(obj, val) ==
    IF val # 0 THEN <<Call("setOn", obj.id, 0)>> ELSE <<Call("setOff", obj.id, 0)>>

\* mutant: the external bank's offset is left out
dosageRelayId_NoOffset(obj) == obj.categoryId

\* setDosageTimer: the channel id, and the dosage command of the first
\* configured id that equals it
dosageRelayId(obj) ==
    obj.categoryId + (IF obj.category = EXTERNAL_RELAYS THEN DosageExtOffset ELSE 0)

setDosageTimer(obj, val, base) ==
    IF dosageRelayId(obj) = getChlorineDosageControlId(base)
    THEN <<Call("setChlorineDosage", 0, val)>>
    ELSE IF dosageRelayId(obj) = getPhMinusDosageControlId(base)
    THEN <<Call("setPhMinusDosage", 0, val)>>
    ELSE IF dosageRelayId(obj) = getPhPlusDosageControlId(base)
    THEN <<Call("setPhPlusDosage", 0, val)>>
    ELSE <<>>

\* setRelayTimer
timerRelayId(obj) ==
    obj.categoryId + (IF obj.category = EXTERNAL_RELAYS THEN TimerExtOffset ELSE TimerOffset)

setRelayTimer(obj, val) == <<Call("setTimer", timerRelayId(obj), val)>>

\* the device calls of a handler that resolved its object
Dispatch(kind, obj, val, onOff, base) ==
    CASE kind = "auto" -> relayToggleAuto(obj, val, onOff)
      [] kind = "onOff" -> relayToggleOnOff(obj, val)
      [] kind = "dosageTimer" -> setDosageTimer(obj, val, base)
      [] OTHER -> setRelayTimer(obj, val)

\* ------------------------------------------------------------------ actions
Init ==
    /\ pc = "constructed"
    /\ stateData = EmptyData
    /\ bootstrapped = FALSE
    /\ forceUpdate = <<>>
    /\ objects = {}
    /\ h = Idle
    /\ obs = NoObs
    /\ cycle = NoCycle
    /\ connection = "unset"
    /\ connectionApproved = FALSE
    /\ service = "none"
    /\ timeout = "null"
    /\ unloaded = FALSE
    /\ last = "none"
    /\ writable = {}
    /\ mat = NoMat
    /\ event = NoEvent
    /\ stored = [id \in ObjIds |-> -1]
    /\ unsettled = {}
    /\ creating = FALSE

\* onReady up to its first await: info.connection is set to false
ReadyStart ==
    /\ pc = "constructed"
    /\ pc' = "awaitConnection"
    /\ connection' = "false"
    /\ connectionApproved' = FALSE
    /\ last' = "start"
    /\ UNCHANGED <<stateData, bootstrapped, forceUpdate, h, obs, cycle, service, timeout,
                   unloaded, event>>
    /\ UNCHANGED storeVars
    /\ UNCHANGED writeVars

\* onReady resumes: with an invalid controller URL it returns, otherwise it
\* creates the services and calls update()
ReadyConfigured(valid) ==
    /\ pc = "awaitConnection"
    /\ pc' = IF valid THEN "awaitUpdate" ELSE "returned"
    /\ service' = IF valid THEN "idle" ELSE service
    /\ UNCHANGED <<stateData, bootstrapped, forceUpdate, h, obs, cycle, connection,
                   connectionApproved, timeout, unloaded, last, event>>
    /\ UNCHANGED storeVars
    /\ UNCHANGED writeVars

\* update() resolves: the data is kept as baseline and the materialization
\* starts
ReadyUpdated(data) ==
    /\ pc = "awaitUpdate"
    /\ pc' = "materialize"
    /\ stateData' = data
    /\ UNCHANGED <<bootstrapped, forceUpdate, h, obs, cycle, event>>
    /\ UNCHANGED lifeVars
    /\ UNCHANGED storeVars
    /\ UNCHANGED writeVars

\* update() rejects: onReady has no handler for it and rejects
ReadyUpdateFails ==
    /\ pc = "awaitUpdate"
    /\ pc' = "failed"
    /\ UNCHANGED <<stateData, bootstrapped, forceUpdate, h, obs, cycle, event>>
    /\ UNCHANGED lifeVars
    /\ UNCHANGED storeVars
    /\ UNCHANGED writeVars

\* the then-callback of update() after its awaits: the category channels are
\* created and setDataObjectNotExists is called for each object (objects holds
\* what these calls create); unless a rejection was thrown to onReady, the
\* delayed start of the loop is scheduled and the relay states are subscribed
ReadyMaterialized(rejects) ==
    /\ pc = "materialize"
    /\ LET r == setStateDataObjectsNotExists(stateData, rejects)
           ran == ~bootstrapped
       IN  /\ objects' = IF ran THEN r.created ELSE objects
           /\ writable' = IF ran THEN r.writable ELSE writable
           /\ mat' = IF ran THEN Materialized(stateData, rejects) ELSE mat
           /\ pc' = IF ran /\ r.aborted THEN "failed" ELSE "running"
           /\ timeout' = IF ran /\ r.aborted THEN timeout ELSE "armed"
           /\ creating' = (ran /\ r.attempted # {})
    /\ UNCHANGED <<stateData, bootstrapped, forceUpdate, h, obs, cycle, connection,
                   connectionApproved, service, unloaded, last, event, stored, unsettled>>

\* the setDataObjectNotExists calls, which nothing awaits, have all settled
ObjectsCreated ==
    /\ creating
    /\ creating' = FALSE
    /\ UNCHANGED <<pc, stateData, bootstrapped, forceUpdate, h, obs, cycle, event,
                   stored, unsettled>>
    /\ UNCHANGED lifeVars
    /\ UNCHANGED storeVars

\* the callback of setTimeout(..., 300): the poll loop is started
TimerFires ==
    /\ timeout = "armed"
    /\ timeout' = "fired"
    /\ service' = "started"
    /\ UNCHANGED <<pc, stateData, bootstrapped, forceUpdate, h, obs, cycle, connection,
                   connectionApproved, unloaded, last, event>>
    /\ UNCHANGED storeVars
    /\ UNCHANGED writeVars

\* onReady when nothing interrupts it and the store rejects nothing, through
\* to the timer callback that starts the poll loop, the objects created by then
OnReady(data) ==
    /\ pc = "constructed"
    /\ pc' = "running"
    /\ stateData' = data
    /\ LET r == setStateDataObjectsNotExists(data, NoRejects)
       IN  /\ objects' = IF ~bootstrapped THEN r.created ELSE objects
           /\ writable' = IF ~bootstrapped THEN r.writable ELSE writable
           /\ mat' = IF ~bootstrapped THEN Materialized(data, NoRejects) ELSE mat
    /\ connection' = "false"
    /\ connectionApproved' = FALSE
    /\ service' = "started"
    /\ timeout' = "fired"
    /\ last' = "start"
    /\ UNCHANGED <<bootstrapped, forceUpdate, h, obs, cycle, unloaded, event>>
    /\ UNCHANGED writeVars

\* mutant: onUnload leaves info.connection as it is
onUnload_KeepsFlag ==
    /\ pc # "constructed"
    /\ ~unloaded
    /\ unloaded' = TRUE
    /\ service' = IF service = "none" THEN service ELSE "stopped"
    /\ last' = "unload"
    /\ timeout' = IF timeout = "armed" THEN "cleared" ELSE timeout
    /\ UNCHANGED <<pc, stateData, bootstrapped, forceUpdate, h, obs, cycle, connection,
                   connectionApproved, event>>
    /\ UNCHANGED storeVars
    /\ UNCHANGED writeVars

\* onUnload: the service, if there is one, is stopped, info.connection is set
\* to false, and the timer is cleared if this._timeout holds one
onUnload ==
    /\ pc # "constructed"
    /\ ~unloaded
    /\ unloaded' = TRUE
    /\ service' = IF service = "none" THEN service ELSE "stopped"
    /\ connection' = "false"
    /\ last' = "unload"
    /\ timeout' = IF timeout = "armed" THEN "cleared" ELSE timeout
    /\ UNCHANGED <<pc, stateData, bootstrapped, forceUpdate, h, obs, cycle,
                   connectionApproved, event>>
    /\ UNCHANGED storeVars
    /\ UNCHANGED writeVars

\* the ids a cycle wrote states of
Updated(writes) == { writes[k][1] : k \in 1..Len(writes) }

\* the success callback handed to _getStateService.start: what it does to the
\* adapter's fields and the states it writes
successCallback(data) ==
    /\ pc = "running"
    /\ service = "started"
    /\ LET r == forEachObject(1, data, stateData, bootstrapped,
                    [ledger |-> forceUpdate, writes |-> <<>>, renames |-> <<>>])
           seen == IF h.id \in Updated(r.writes) THEN "updated" ELSE "skipped"
       IN  /\ forceUpdate' = r.ledger
           /\ unsettled' = unsettled \cup Updated(r.writes)
           /\ cycle' = [done |-> TRUE, boot |-> bootstrapped, prev |-> stateData.objects,
                        prevSys |-> stateData.sysInfo, racing |-> creating,
                        ledger |-> { forceUpdate[k] : k \in 1..Len(forceUpdate) },
                        left |-> { r.ledger[k] : k \in 1..Len(r.ledger) },
                        sysWrites |-> sysInfoWrites(1, data, stateData, bootstrapped)
                                      \o updateAdvancedSysInfoStates(data, stateData, bootstrapped),
                        objWrites |-> r.writes, renames |-> r.renames, creates |-> {}]
           /\ obs' = IF h.kind # "auto" THEN obs
                     ELSE [obs EXCEPT
                             !.firstPoll = IF @ = "none" THEN seen ELSE @,
                             !.pushPoll = IF @ = "none" /\ h.pushed THEN seen ELSE @]
    /\ stateData' = data
    /\ bootstrapped' = TRUE
    /\ connectionApproved' = TRUE
    /\ connection' = "true"
    /\ last' = "pollOk"
    /\ UNCHANGED <<pc, h, service, timeout, unloaded, event>>

\* mutant: the callback creates the objects of the snapshot
PollSuccess_Materializes(data) ==
    /\ successCallback(data)
    /\ objects' = objects \cup setStateDataObjectsNotExists(data, NoRejects).created
    /\ UNCHANGED <<writable, mat, stored, creating>>

\* a poll cycle: the callback creates no object
PollSuccess(data) ==
    /\ successCallback(data)
    /\ UNCHANGED storeVars
    /\ UNCHANGED <<stored, creating>>

\* the setStateAsync of an object's value settles: the store has the value,
\* or the rejection is logged
WriteSettles(id, ok) ==
    /\ id \in unsettled
    /\ unsettled' = unsettled \ {id}
    /\ stored' = IF ok THEN [stored EXCEPT ![id] = stateData.objects[id].value] ELSE stored
    /\ UNCHANGED <<pc, stateData, bootstrapped, forceUpdate, h, obs, cycle, event, creating>>
    /\ UNCHANGED lifeVars
    /\ UNCHANGED storeVars

\* mutant: the error callback never stops the service
serviceAfterError_KeepsRunning(approved, svc) == svc

\* the error callback: unless a poll has succeeded before, the service is
\* stopped
serviceAfterError(approved, svc) == IF ~approved THEN "stopped" ELSE svc

\* the error callback handed to _getStateService.start
PollFailure ==
    /\ service = "started"
    /\ connection' = "false"
    /\ last' = "pollFail"
    /\ service' = serviceAfterError(connectionApproved, service)
    /\ UNCHANGED <<pc, stateData, bootstrapped, forceUpdate, h, obs, cycle,
                   connectionApproved, timeout, unloaded, event>>
    /\ UNCHANGED storeVars
    /\ UNCHANGED writeVars

\* mutant: an acknowledged state is dispatched like an unacknowledged one
handlerOf_AckToo(intent) ==
    IF intent.state = "deleted" THEN "none"
    ELSE IF intent.kind \in HandlerSuffixes THEN intent.kind
    ELSE "none"

\* onStateChange: the handler an event is dispatched to, "none" when it
\* returns without one
handlerOf(intent) ==
    IF intent.state = "deleted" THEN "none"
    ELSE IF intent.state = "ack" THEN "none"
    ELSE IF intent.kind \in HandlerSuffixes THEN intent.kind
    ELSE "none"

\* onStateChange: the handler of the path's suffix starts and runs up to its
\* first await
OnStateChange(intent) ==
    /\ pc = "running"
    /\ h.pc \in {"idle", "done"}
    /\ Len(forceUpdate) < MaxLedger
    /\ event' = intent
    /\ LET kind == handlerOf(intent)
       IN  /\ h' = IF kind = "none" THEN h
                   ELSE [Idle EXCEPT !.kind = kind, !.id = intent.id, !.val = intent.val,
                                     !.pc = IF kind = "auto" THEN "getState" ELSE "getObject"]
           /\ obs' = IF kind = "none" THEN obs
                     ELSE IF kind = "auto" THEN [NoObs EXCEPT !.boot = bootstrapped]
                     ELSE NoObs
    /\ UNCHANGED <<pc, stateData, bootstrapped, forceUpdate, cycle>>
    /\ UNCHANGED lifeVars
    /\ UNCHANGED storeVars
    /\ UNCHANGED writeVars

\* relayToggleAuto resumes from getStateAsync(<path>.onOff): the store has no
\* value for the state, or true, or false
GetStateReturns(onOffState) ==
    /\ h.pc = "getState"
    /\ h' = IF onOffState = "null"
            THEN [h EXCEPT !.pc = "done", !.result = "rejected"]
            ELSE [h EXCEPT !.pc = "getObject", !.onOff = onOffState]
    /\ UNCHANGED <<pc, stateData, bootstrapped, forceUpdate, obs, cycle, event>>
    /\ UNCHANGED lifeVars
    /\ UNCHANGED storeVars
    /\ UNCHANGED writeVars

\* mutant: the store has every object
getObjectAsync_Always(objs, id, kind) == TRUE

\* getObjectAsync(objectId) returns an object, not null
getObjectAsync(objs, id, kind) == <<id, kind>> \in objs

\* mutant: the id is not kept
push_Dropped(s, x) == s

\* Array.prototype.push
push(s, x) == Append(s, x)

\* a handler resumes from getObjectAsync(objectId): without the object it
\* throws; with it, it reads the baseline's data object, pushes the id to the
\* ledger and calls the device
GetObjectReturns ==
    /\ h.pc = "getObject"
    /\ IF ~getObjectAsync(objects, h.id, h.kind)
       THEN /\ h' = [h EXCEPT !.pc = "done", !.result = "rejected"]
            /\ UNCHANGED forceUpdate
       ELSE LET obj == getDataObject(stateData, h.id)
                calls == Dispatch(h.kind, obj, h.val, h.onOff, stateData)
            IN  /\ forceUpdate' = push(forceUpdate, obj.id)
                /\ h' = [h EXCEPT !.pushed = TRUE, !.calls = calls,
                                  !.pc = IF calls = <<>> THEN "done" ELSE "transport",
                                  !.result = IF calls = <<>> THEN "resolved" ELSE "none"]
    /\ UNCHANGED <<pc, stateData, bootstrapped, obs, cycle, event>>
    /\ UNCHANGED lifeVars
    /\ UNCHANGED storeVars
    /\ UNCHANGED writeVars

\* how the handler ends when the device call settles: auto returns the call's
\* promise from inside try, so a rejection rejects the handler; the others
\* await it inside try, so a rejection is caught and logged
HandlerResult(kind, ok) ==
    IF ok \/ kind # "auto" THEN "resolved" ELSE "rejected"

\* the device call of the handler settles
TransportSettles(ok) ==
    /\ h.pc = "transport"
    /\ h' = [h EXCEPT !.pc = "done", !.result = HandlerResult(h.kind, ok)]
    /\ UNCHANGED <<pc, stateData, bootstrapped, forceUpdate, obs, cycle, event>>
    /\ UNCHANGED lifeVars
    /\ UNCHANGED storeVars
    /\ UNCHANGED writeVars

\* the reconciliation runs: every value and label, on/off intents
Next ==
    \/ \E data \in Snapshots : OnReady(data)
    \/ \E data \in Snapshots : PollSuccess(data)
    \/ \E intent \in ReconcileIntents : OnStateChange(intent)
    \/ GetObjectReturns
    \/ \E ok \in BOOLEAN : TransportSettles(ok)

Spec == Init /\ [][Next]_vars

\* the dispatch runs: every intent, the handler's awaits interleaved with the
\* poll callbacks
NextDispatch ==
    \/ \E data \in DispatchSnapshots : OnReady(data)
    \/ \E data \in DispatchSnapshots : PollSuccess(data)
    \/ \E intent \in Intents : OnStateChange(intent)
    \/ \E onOffState \in {"null", "true", "false"} : GetStateReturns(onOffState)
    \/ GetObjectReturns
    \/ \E ok \in BOOLEAN : TransportSettles(ok)

SpecDispatch == Init /\ [][NextDispatch]_vars

\* the dosage relay configurations of the lifecycle runs: both objects are
\* dosage relays, the relay alone, neither; the dosage control bitmask changes
\* under the last one
StartupConfigs == {<<1, 9, 2>>, <<2, 2, 1>>, <<2, 3, 4>>}
StartupSnapshots ==
    SnapshotsOver({0}, {0, 1}, StartupConfigs, {0}, FALSE)
    \cup SnapshotsOver({1}, {0, 1}, {<<2, 3, 4>>}, {0}, FALSE)

\* the store rejects nothing, or one creation: of a category channel, or of an
\* object's channel, value state or relay entity
RejectSets ==
    {NoRejects}
    \cup { [NoRejects EXCEPT !.categories = {c}] : c \in {RELAYS, EXTERNAL_RELAYS} }
    \cup { [NoRejects EXCEPT !.entities = {<<id, e>>}] :
             id \in ObjIds, e \in {"channel", "value", "auto", "onOff", "timer", "dosageTimer"} }

\* the lifecycle runs: onReady step by step, the store rejecting creations,
\* the timer, the poll callbacks and onUnload interleaved
NextLifecycle ==
    \/ ReadyStart
    \/ \E valid \in BOOLEAN : ReadyConfigured(valid)
    \/ \E data \in StartupSnapshots : ReadyUpdated(data)
    \/ ReadyUpdateFails
    \/ \E rejects \in RejectSets : ReadyMaterialized(rejects)
    \/ ObjectsCreated
    \/ TimerFires
    \/ \E data \in StartupSnapshots : PollSuccess(data)
    \/ PollFailure
    \/ onUnload

SpecLifecycle == Init /\ [][NextLifecycle]_vars

\* the snapshot of the event runs
EventSnapshots == SnapshotsOver({0}, {1}, {<<2, 3, 4>>}, {0}, FALSE)

\* the event runs: deleted, acknowledged and unacknowledged events of every
\* suffix
NextEvents ==
    \/ \E data \in EventSnapshots : OnReady(data)
    \/ \E data \in EventSnapshots : PollSuccess(data)
    \/ \E intent \in StateChangeEvents : OnStateChange(intent)
    \/ \E onOffState \in {"null", "true", "false"} : GetStateReturns(onOffState)
    \/ GetObjectReturns
    \/ \E ok \in BOOLEAN : TransportSettles(ok)

SpecEvents == Init /\ [][NextEvents]_vars

\* the snapshots of the write runs: the values and the external bank change
CycleSnapshots == SnapshotsOver({0}, {0, 1}, {<<2, 3, 4>>}, Values, FALSE)

\* the write runs: the poll callbacks and the settling of the writes they
\* issued
NextCycle ==
    \/ \E data \in CycleSnapshots : OnReady(data)
    \/ \E data \in CycleSnapshots : PollSuccess(data)
    \/ \E id \in ObjIds, ok \in BOOLEAN : WriteSettles(id, ok)

SpecCycle == Init /\ [][NextCycle]_vars

\* ------------------------------------------------------------------ claims
Cur == stateData.objects
WroteField(id, f) == \E k \in 1..Len(cycle.objWrites) : cycle.objWrites[k] = <<id, f>>
WroteObject(id) == id \in Updated(cycle.objWrites)
TrackedFields == { objectStateFields[k] : k \in 1..Len(objectStateFields) }
Count(s, x) == Cardinality({ k \in 1..Len(s) : s[k] = x })
BootstrappedCycle == cycle.done /\ cycle.boot

\* C1 as stated: in a bootstrapped cycle, a tracked field that is the same in
\* the baseline and the snapshot, of an object whose id is not in the ledger,
\* is not written.
C1_FieldUnchangedNotWritten ==
    BootstrappedCycle =>
        \A id \in ObjIds : \A f \in TrackedFields :
            (cycle.prev[id][f] = Cur[id][f] /\ id \notin cycle.ledger) => ~WroteField(id, f)

\* C1 amended: in a bootstrapped cycle, an object whose value is the same in
\* the baseline and the snapshot and whose id is not in the ledger gets no
\* write at all, whatever else changed; an object that is written gets all six
\* tracked fields written, the unchanged ones too.
C1_ValueUnchangedNothingWritten ==
    BootstrappedCycle =>
        \A id \in ObjIds :
            /\ (cycle.prev[id].value = Cur[id].value /\ id \notin cycle.ledger)
                   => ~WroteObject(id)
            /\ WroteObject(id) => \A f \in TrackedFields : WroteField(id, f)

\* C1 witness: a bootstrapped cycle in which one object kept its value, changed
\* its label and was not written while the other object was written.
C1_Witness ==
    /\ BootstrappedCycle
    /\ cycle.ledger = {28}
    /\ cycle.prev[16].value = Cur[16].value
    /\ cycle.prev[16].label # Cur[16].label
    /\ ~WroteObject(16)
    /\ WroteObject(28)

\* C2 as stated: in a bootstrapped cycle, an object with any tracked field
\* different from the baseline gets a store update.
C2_AnyFieldChangeUpdates ==
    BootstrappedCycle =>
        \A id \in ObjIds :
            (\E f \in TrackedFields : cycle.prev[id][f] # Cur[id][f]) => WroteObject(id)

\* C3: an object whose id is in the ledger when the cycle starts gets all its
\* tracked fields written in that cycle, also when no field changed.
C3_ForcedObjectUpdated ==
    cycle.done =>
        \A id \in cycle.ledger : \A f \in TrackedFields : WroteField(id, f)

\* C3 witness: a bootstrapped cycle that wrote an object whose fields all equal
\* the baseline, because its id was in the ledger.
C3_Witness ==
    /\ BootstrappedCycle
    /\ 16 \in cycle.ledger
    /\ cycle.prev[16] = Cur[16]
    /\ WroteObject(16)
    /\ ~WroteObject(28)

\* C4 as stated: an id that is in the ledger when the cycle starts is not in
\* the ledger when the cycle ends.
C4_ForcedIdRemoved ==
    cycle.done => cycle.ledger \cap cycle.left = {}

\* C6 as stated: in a bootstrapped cycle, an object whose label changed while
\* its value did not, and whose id is not in the ledger, is renamed, and the
\* cycle creates no object.
C6_LabelChangeRenames ==
    BootstrappedCycle =>
        \A id \in ObjIds :
            (/\ cycle.prev[id].label # Cur[id].label
             /\ cycle.prev[id].value = Cur[id].value
             /\ id \notin cycle.ledger)
            => (Count(cycle.renames, id) = 1 /\ cycle.creates = {})

\* the four derived booleans of updateAdvancedSysInfoStates
DerivedSysStates ==
    {"phPlusDosageEnabled", "phMinusDosageEnabled", "chlorineDosageEnabled", "electrolysis"}

\* C7: the cycle that ran with the bootstrap flag false wrote every tracked
\* field of every object once, every system info state once, and the flag is
\* true afterwards.
C7_FirstCycleWritesAll ==
    (cycle.done /\ ~cycle.boot) =>
        /\ \A id \in ObjIds : \A f \in TrackedFields : Count(cycle.objWrites, <<id, f>>) = 1
        /\ \A k \in SysKeys \cup DerivedSysStates : Count(cycle.sysWrites, k) = 1
        /\ bootstrapped

\* C7 witness: the first cycle processed a snapshot equal to the data fetched
\* at startup.
C7_Witness ==
    /\ cycle.done
    /\ ~cycle.boot
    /\ cycle.prev = Cur
    /\ WroteObject(16)
    /\ WroteObject(28)

LedgerIds == { forceUpdate[k] : k \in 1..Len(forceUpdate) }
AutoIntent(want) == h.kind = "auto" /\ (h.val # 0) = want
SetAuto(id) == <<Call("setAuto", id, 0)>>

\* C5 as stated: after an auto=true intent received while bootstrapped, the
\* handler makes exactly one "set auto" call and pushes the relay's id, and the
\* first poll cycle processed after the intent was received writes the relay.
C5_NextPollAfterReceiptForced ==
    (AutoIntent(TRUE) /\ obs.boot) =>
        /\ h.pc = "done" => (h.calls = SetAuto(h.id) /\ h.pushed)
        /\ obs.firstPoll # "skipped"

\* C5 amended: after an auto=true intent received while bootstrapped, the
\* handler pushes the relay's id and makes exactly one "set auto" call in the
\* step that follows its two store reads, and only when both returned a value
\* (without the onOff state or without the object it fails, with no call and no
\* ledger entry); the id stays in the ledger until a poll cycle is processed,
\* and the first poll cycle processed after the push writes the relay.  A poll
\* cycle processed between the receipt and the push is not forced.
C5_NextPollAfterPushForced ==
    (AutoIntent(TRUE) /\ obs.boot) =>
        /\ h.pushed => h.calls = SetAuto(h.id)
        /\ ~h.pushed => h.calls = <<>>
        /\ (h.pc = "done" /\ ~h.pushed) =>
               (h.result = "rejected" /\ (h.onOff = "null" \/ <<h.id, "auto">> \notin objects))
        /\ (h.pc = "done" /\ h.onOff # "null" /\ <<h.id, "auto">> \in objects) => h.pushed
        /\ (h.pushed /\ obs.pushPoll = "none") => h.id \in LedgerIds
        /\ obs.pushPoll # "skipped"

\* C5 witness: the poll cycle between receipt and push skipped the relay, the
\* one after the push wrote it although the snapshot equals the baseline.
C5_Witness ==
    /\ AutoIntent(TRUE)
    /\ obs.boot
    /\ h.calls = SetAuto(h.id)
    /\ obs.firstPoll = "skipped"
    /\ obs.pushPoll = "updated"
    /\ cycle.prev = Cur
    /\ WroteObject(h.id)

\* C8 as stated: a finished auto=true handler of an existing relay object has
\* made exactly one call, "set auto", whatever the store returned for onOff.
C8_AutoTrueAlwaysSetsAuto ==
    (AutoIntent(TRUE) /\ h.pc = "done" /\ <<h.id, "auto">> \in objects) =>
        h.calls = SetAuto(h.id)

\* C8 amended: an auto=true handler of an existing relay object whose onOff
\* state has a stored value makes exactly one call, "set auto", whether that
\* value is true or false, and never "set on" or "set off"; when the onOff
\* state has no stored value the handler fails before any call.
C8_AutoTrueSetsAuto ==
    (AutoIntent(TRUE) /\ <<h.id, "auto">> \in objects) =>
        /\ \A k \in 1..Len(h.calls) : h.calls[k].cmd = "setAuto"
        /\ (h.pc = "done" /\ h.onOff # "null") => h.calls = SetAuto(h.id)
        /\ (h.pc = "done" /\ h.onOff = "null") => (h.calls = <<>> /\ h.result = "rejected")

\* C8 witness: the handler read onOff = true and sent "set auto" alone.
C8_Witness ==
    /\ AutoIntent(TRUE)
    /\ h.pc = "done"
    /\ h.onOff = "true"
    /\ h.calls = SetAuto(h.id)
    /\ h.result = "resolved"

\* C9 as stated: a finished auto=false handler has made exactly one call,
\* "set on" if the onOff state it read is true and "set off" otherwise.
C9_AutoFalseOneCommand ==
    (AutoIntent(FALSE) /\ h.pc = "done") =>
        h.calls = <<Call(IF h.onOff = "true" THEN "setOn" ELSE "setOff", h.id, 0)>>

\* C9 amended: an auto=false handler whose two store reads returned a value
\* (the onOff state and the object) makes exactly one call, "set on" if the
\* onOff state it read is true and "set off" otherwise, never "set auto"; when
\* the onOff state has no stored value or the object does not exist the
\* handler fails and makes no call.
C9_AutoFalseOnOrOff ==
    AutoIntent(FALSE) =>
        /\ h.pushed =>
               h.calls = <<Call(IF h.onOff = "true" THEN "setOn" ELSE "setOff", h.id, 0)>>
        /\ ~h.pushed => h.calls = <<>>
        /\ (h.pc = "done" /\ ~h.pushed) =>
               (h.result = "rejected" /\ (h.onOff = "null" \/ <<h.id, "auto">> \notin objects))
        /\ (h.pc = "done" /\ h.onOff # "null" /\ <<h.id, "auto">> \in objects) => h.pushed

\* C9 witness: the handler read onOff = true and sent "set on".
C9_Witness ==
    /\ AutoIntent(FALSE)
    /\ h.pc = "done"
    /\ h.onOff = "true"
    /\ h.calls = <<Call("setOn", h.id, 0)>>

\* the dosage channels whose configured id equals the channel id of the
\* handler's object: categoryId, plus 8 for an external relay
DosageChannelsOf(id) ==
    LET obj == stateData.objects[id]
        rid == IF obj.category = EXTERNAL_RELAYS THEN obj.categoryId + 8 ELSE obj.categoryId
    IN  { c \in {"setChlorineDosage", "setPhMinusDosage", "setPhPlusDosage"} :
            rid = (CASE c = "setChlorineDosage" -> stateData.sysInfo.chlorineDosageRelais
                     [] c = "setPhMinusDosage" -> stateData.sysInfo.phMinusDosageRelais
                     [] OTHER -> stateData.sysInfo.phPlusDosageRelais) }

\* C10: the step in which a dosage-timer handler resolves its object makes at
\* most one call, on a dosage channel whose configured id equals the channel
\* id, with the seconds of the intent, and pushes the object's id; when no
\* configured id equals the channel id it makes no call and the handler is
\* finished without error.
C10_DosageTimerChannel ==
    [][ (h.kind = "dosageTimer" /\ h.pc = "getObject" /\ h'.pc # "getObject"
         /\ <<h.id, "dosageTimer">> \in objects) =>
            /\ Len(h'.calls) <= 1
            /\ \A k \in 1..Len(h'.calls) :
                   /\ h'.calls[k].cmd \in DosageChannelsOf(h.id)
                   /\ h'.calls[k].seconds = h.val
            /\ (DosageChannelsOf(h.id) # {}) => Len(h'.calls) = 1
            /\ (DosageChannelsOf(h.id) = {}) =>
                   (h'.calls = <<>> /\ h'.pc = "done" /\ h'.result = "resolved")
            /\ forceUpdate' = Append(forceUpdate, h.id) ]_vars

\* C10 witness: a dosage-timer handler of the external relay finished without
\* a call and without error, its id in the ledger.
C10_Witness ==
    /\ h.kind = "dosageTimer"
    /\ h.id = 28
    /\ h.pc = "done"
    /\ h.pushed
    /\ h.calls = <<>>
    /\ h.result = "resolved"
    /\ 28 \in LedgerIds

IsPrefix(s, t) == Len(s) <= Len(t) /\ \A k \in 1..Len(s) : s[k] = t[k]
HandlerFinishes == h.pc # "done" /\ h'.pc = "done"

\* C11 as stated: in the step in which a handler that resolved its object
\* finishes, the object's id is in the ledger.
C11_IdInLedgerAtFinish ==
    [][ (HandlerFinishes /\ h'.pushed) => h'.id \in { forceUpdate'[k] : k \in 1..Len(forceUpdate') }
      ]_vars

\* C11 amended: for each of the four intents, the step in which the handler
\* resolves its object appends the object's id to the ledger, and a device
\* call is made in that step only; the step in which the call settles leaves
\* the ledger as it is, whether the call succeeded or failed; no handler step
\* removes an id.  A poll cycle processed while the call is pending may have
\* consumed the id before the handler finishes.
C11_IdPushedWithCall ==
    [][ /\ (h.pc = "getObject" /\ h'.pc # "getObject" /\ <<h.id, h.kind>> \in objects) =>
               (forceUpdate' = Append(forceUpdate, h.id) /\ h'.pushed)
        /\ (h'.calls # h.calls /\ h'.calls # <<>>) =>
               (h.pc = "getObject" /\ forceUpdate' = Append(forceUpdate, h.id))
        /\ (h.pc = "transport" /\ h'.pc = "done") => forceUpdate' = forceUpdate
        /\ (h' # h) => IsPrefix(forceUpdate, forceUpdate') ]_vars

\* C11 witness: an auto handler whose device call failed has finished, the
\* id it pushed in the ledger.
C11_Witness ==
    /\ h.kind = "auto"
    /\ h.pc = "done"
    /\ h.pushed
    /\ h.result = "rejected"
    /\ h.id \in LedgerIds
    /\ bootstrapped

C13_TransportFailureCaught ==
    (h.pc = "done" /\ h.calls # <<>>) => h.result = "resolved"

\* C14: a delivered event that is acknowledged or deleted, or whose suffix has
\* no handler, starts no handler (no store read, no device call) and leaves
\* the ledger as it is; an unacknowledged event with one of the four suffixes
\* starts the handler of its suffix, at its first store read.
C14_EventDispatch ==
    [][ (event' # event) =>
            IF event'.state \in {"ack", "deleted"}
               \/ event'.kind \notin {"auto", "onOff", "dosageTimer", "timer"}
            THEN h' = h /\ forceUpdate' = forceUpdate
            ELSE /\ h'.kind = event'.kind
                 /\ h'.id = event'.id
                 /\ h'.val = event'.val
                 /\ h'.pc = IF event'.kind = "auto" THEN "getState" ELSE "getObject"
                 /\ h'.calls = <<>>
                 /\ ~h'.pushed
                 /\ forceUpdate' = forceUpdate ]_vars

\* C14 witness: an acknowledged auto event was delivered after an on/off
\* handler had finished; no handler started for it.
C14_Witness ==
    /\ event.state = "ack"
    /\ event.kind = "auto"
    /\ h.kind = "onOff"
    /\ h.pc = "done"
    /\ h.calls = <<Call("setOn", 16, 0)>>

\* C15 as stated: once onUnload has been handled the poll loop is not running.
C15_NoLoopAfterUnload ==
    unloaded => service # "started"

\* C16: info.connection was last requested true only when the latest event is
\* a processed poll cycle; when the latest event is the start, a poll failure
\* or the shutdown it was last requested false.
C16_ConnectionFlag ==
    /\ last \in {"start", "pollFail", "unload"} => connection = "false"
    /\ connection = "true" => (last = "pollOk" /\ cycle.done /\ bootstrapped)
    /\ last = "pollOk" => connection = "true"
    /\ last = "none" => connection = "unset"

\* C16 witness: the shutdown came after a processed poll cycle and the flag
\* was requested false.
C16_Witness ==
    /\ last = "unload"
    /\ cycle.done
    /\ bootstrapped
    /\ connectionApproved
    /\ connection = "false"

\* C17 as stated: after a poll failure the flag is false and the loop runs.
C17_LoopKeepsRunning ==
    last = "pollFail" => (connection = "false" /\ service = "started")

\* C17 amended: after a poll failure the flag is false; the loop keeps
\* running when a poll cycle has succeeded before, and the adapter has
\* stopped it when none has.
C17_LoopStoppedUnlessApproved ==
    last = "pollFail" =>
        /\ connection = "false"
        /\ connectionApproved => (service = "started" /\ bootstrapped)
        /\ ~connectionApproved => (service = "stopped" /\ ~bootstrapped)

\* C17 witness: the first poll failed and the loop is stopped, without a
\* shutdown.
C17_Witness ==
    /\ last = "pollFail"
    /\ ~connectionApproved
    /\ ~unloaded
    /\ service = "stopped"
    /\ connection = "false"

\* what the claims expect of the materialization of object id under the
\* baseline's system info
RelayChannelId(id) == CategoryId(id) + (IF Category(id) = EXTERNAL_RELAYS THEN 8 ELSE 0)
IsDosageRelay(id) ==
    RelayChannelId(id) \in {stateData.sysInfo.chlorineDosageRelais,
                            stateData.sysInfo.phMinusDosageRelais,
                            stateData.sysInfo.phPlusDosageRelais}
RelayClass(id) ==
    \/ Category(id) = RELAYS
    \/ Category(id) = EXTERNAL_RELAYS /\ stateData.sysInfo.configOtherEnable = 1
RelayEntityNames == {"auto", "onOff", "timer", "dosageTimer"}
ExpectedRelayEntities(id) ==
    IF RelayClass(id)
    THEN { <<id, "auto">>, <<id, "onOff">>,
           <<id, IF IsDosageRelay(id) THEN "dosageTimer" ELSE "timer">> }
    ELSE {}
ExpectedEntities(id) ==
    { <<id, "channel">> } \cup { <<id, f>> : f \in TrackedFields }
    \cup ExpectedRelayEntities(id)

\* C18 as stated: after a processed poll cycle the relay entities of every
\* object that is relay-class under the new baseline exist.
C18_CycleCreatesMissing ==
    cycle.done => \A id \in ObjIds : ExpectedRelayEntities(id) \subseteq objects

\* C18 amended: the objects are created once, at startup, for the snapshot
\* fetched then; no later step creates or changes one, a poll cycle whose
\* snapshot enables the external bank included.
C18_CreatedAtStartupOnly ==
    [][ /\ (pc = "constructed" /\ pc' = "running") =>
               objects' = UNION { ExpectedEntities(id)' : id \in ObjIds }
        /\ pc = "running" => (objects' = objects /\ writable' = writable) ]_vars

\* C18 witness: a processed poll cycle whose snapshot has the external bank
\* enabled; the external relay has its field states, which the cycle wrote,
\* but no relay entities.
C18_Witness ==
    /\ cycle.done
    /\ stateData.sysInfo.configOtherEnable = 1
    /\ <<28, "value">> \in objects
    /\ <<28, "auto">> \notin objects
    /\ WroteField(28, "value")
    /\ ~WroteField(28, "auto")

\* C19 as stated: the materialization attempts every creation whatever the
\* store rejects, creates all it did not reject, and the start of the poll
\* loop is scheduled.
C19_CreationsIndependent ==
    [][ (pc = "materialize" /\ pc' # "materialize") =>
            /\ \A id \in ObjIds : ExpectedEntities(id) \subseteq mat'.attempted
            /\ {RELAYS, EXTERNAL_RELAYS} \subseteq mat'.categoriesAttempted
            /\ objects' = UNION { ExpectedEntities(id) : id \in ObjIds } \ mat'.rejects.entities
            /\ timeout' = "armed" ]_vars

\* C20: when the store rejects nothing, the materialization creates for a
\* relay-class object auto, onOff and one of dosageTimer and timer,
\* dosageTimer exactly when its channel id is one of the three dosage ids;
\* auto and the timer are writable, onOff exactly when the relay is no dosage
\* relay; an object that is not relay-class gets none of them.
C20_RelayEntities ==
    [][ (pc = "materialize" /\ pc' # "materialize" /\ mat'.rejects = NoRejects) =>
            \A id \in ObjIds :
                /\ { e \in objects' : e[1] = id /\ e[2] \in RelayEntityNames }
                       = ExpectedRelayEntities(id)
                /\ { e \in writable' : e[1] = id }
                       = ExpectedRelayEntities(id)
                             \ (IF IsDosageRelay(id) THEN { <<id, "onOff">> } ELSE {}) ]_vars

\* C20 witness: materialized and not yet polled; the relay is a dosage relay
\* with a read-only onOff, the external relay has a generic timer and a
\* writable onOff.
C20_Witness ==
    /\ pc = "running"
    /\ mat.done
    /\ mat.rejects = NoRejects
    /\ ~cycle.done
    /\ IsDosageRelay(16)
    /\ ~IsDosageRelay(28)
    /\ { <<16, "dosageTimer">>, <<28, "timer">> } \subseteq objects
    /\ <<16, "timer">> \notin objects
    /\ <<16, "onOff">> \in objects \ writable
    /\ <<28, "onOff">> \in writable

CurSys == stateData.sysInfo
WroteSys(k) == Count(cycle.sysWrites, k)

\* C21: every decision of a cycle is made against the baseline the cycle
\* started with: a scalar system info state is written exactly when the cycle
\* is the first or the value differs from that baseline's, the derived
\* booleans exactly when the bitmask does, an object exactly when its value
\* does or its id is in the ledger; all writes of an object are issued, none
\* waited for, when the baseline is replaced; and a step in which a write
\* settles, failed or not, changes neither baseline, ledger nor what was
\* issued, so a failed write is issued again only by such a decision.
C21_DecisionsAgainstBaseline ==
    /\ [](cycle.done =>
            /\ \A k \in SysKeys :
                   WroteSys(k) = IF ~cycle.boot \/ cycle.prevSys[k] # CurSys[k] THEN 1 ELSE 0
            /\ \A k \in DerivedSysStates :
                   WroteSys(k) = IF ~cycle.boot
                                    \/ cycle.prevSys.dosageControl # CurSys.dosageControl
                                 THEN 1 ELSE 0
            /\ \A id \in ObjIds :
                   WroteObject(id) <=> \/ ~cycle.boot
                                       \/ cycle.prev[id].value # Cur[id].value
                                       \/ id \in cycle.ledger)
    /\ [][ /\ (cycle' # cycle) =>
                  /\ cycle'.prev = stateData.objects
                  /\ cycle'.prevSys = stateData.sysInfo
                  /\ Updated(cycle'.objWrites) \subseteq unsettled'
           /\ (unsettled' # unsettled /\ unsettled' \subseteq unsettled) =>
                  UNCHANGED <<stateData, bootstrapped, forceUpdate, cycle>> ]_vars

\* C21 witness: the write of the relay's new value failed and has settled;
\* the cycle after it found the value unchanged and wrote nothing, the store
\* still holds the old value.
C21_Witness ==
    /\ BootstrappedCycle
    /\ unsettled = {}
    /\ stored[16] = 0
    /\ Cur[16].value = 1
    /\ cycle.prev[16].value = 1
    /\ ~WroteObject(16)

\* C22: in a bootstrapped cycle a scalar system info state is written once if
\* its value differs from the baseline's and not otherwise; the four derived
\* booleans are written once each if the dosage control bitmask differs from
\* the baseline's, and none of them otherwise.
C22_SysInfoWrites ==
    BootstrappedCycle =>
        /\ \A k \in SysKeys : WroteSys(k) = IF cycle.prevSys[k] # CurSys[k] THEN 1 ELSE 0
        /\ \A k \in DerivedSysStates :
               WroteSys(k) = IF cycle.prevSys.dosageControl # CurSys.dosageControl
                             THEN 1 ELSE 0

\* C22 witness: the bitmask changed and the external bank flag changed, the
\* dosage relays did not; the cycle wrote these two and the four booleans.
C22_Witness ==
    /\ BootstrappedCycle
    /\ cycle.prevSys.dosageControl # CurSys.dosageControl
    /\ cycle.prevSys.configOtherEnable # CurSys.configOtherEnable
    /\ cycle.sysWrites = <<"dosageControl", "configOtherEnable", "phPlusDosageEnabled",
                           "phMinusDosageEnabled", "chlorineDosageEnabled", "electrolysis">>

\* C24 as stated: a cycle that updates an external relay writes its auto and
\* onOff states exactly when the snapshot it processed has the external bank
\* enabled.
C24_RelayStatesBySnapshotFlag ==
    cycle.done =>
        \A id \in ObjIds :
            (Category(id) = EXTERNAL_RELAYS /\ WroteObject(id)) =>
                ((WroteField(id, "auto") /\ WroteField(id, "onOff"))
                    <=> CurSys.configOtherEnable = 1)

\* C23 as stated: a poll cycle writes the states of an object only when the
\* creations that onReady started for the objects have completed.
C23_CreatedBeforeWritten ==
    cycle.done => \A id \in ObjIds : WroteObject(id) => ~cycle.racing

\* ------------------------------------------------------- the drain runs
\* one snapshot that has every object, every intent; the poll loop keeps
\* calling back: GetStateService.start() polls on an interval until stop()
DrainSnapshots == SnapshotsOver({0}, {1}, {<<2, 3, 4>>}, {0}, FALSE)

NextDrain ==
    \/ \E data \in DrainSnapshots : OnReady(data)
    \/ \E data \in DrainSnapshots : PollSuccess(data)
    \/ \E intent \in Intents : OnStateChange(intent)
    \/ \E onOffState \in {"null", "true", "false"} : GetStateReturns(onOffState)
    \/ GetObjectReturns
    \/ \E ok \in BOOLEAN : TransportSettles(ok)

SpecDrain ==
    /\ Init
    /\ [][NextDrain]_vars
    /\ WF_vars(\E data \in DrainSnapshots : PollSuccess(data))

\* a state change event starts a handler
NewIntent == \E intent \in Intents : OnStateChange(intent) /\ h' # h

\* C25: if from some point on no write intent arrives, while the poll cycles
\* keep succeeding with snapshots that have every object, the ledger is
\* eventually empty for good; the ledger grows only in the step of a handler
\* that pushes and shrinks only in a poll cycle.
C25_LedgerDrains ==
    /\ (<>[][~NewIntent]_vars) => <>[](forceUpdate = <<>>)
    /\ [][ /\ Len(forceUpdate') > Len(forceUpdate) => GetObjectReturns
           /\ Len(forceUpdate') < Len(forceUpdate) =>
                  \E data \in DrainSnapshots : PollSuccess(data) ]_vars

\* C25 witness: the handler has finished, the cycle found its id in the
\* ledger and left the ledger empty.
C25_Witness ==
    /\ cycle.done
    /\ cycle.ledger # {}
    /\ h.pc = "done"
    /\ h.pushed
    /\ forceUpdate = <<>>
====
